---- MODULE Spec2Model ----
(***************************************************************************)
(* Synthetic retail data generator (src/app/backend/seed_data.py) and its  *)
(* pipeline driver (src/pipelines/data_generation/generate_data_job.py).   *)
(*                                                                         *)
(* Money is counted in cents (0.01 == 1), discounts in percent             *)
(* (0.25 == 25), dates in days, datetimes in minutes.  A random call is a  *)
(* value taken from the stream it reads: the module-level stream `random`  *)
(* or the generator's own stream `rnd`; the value a seeded stream yields   *)
(* at a position is fixed once it has been read (gtape, rtape).            *)
(***************************************************************************)
EXTENDS Integers, Sequences, FiniteSets, TLC

\* ------------------------------------------------------------- bounds
\* largest count handed to a dimension generator called on its own
MaxCount == 8
\* cap on order_counter: the per-minute coin stops succeeding there
MaxOrders == 2
\* largest --days argument
MaxDays == 1
\* most days of a window handed to gen_inventory_snapshots called on its own
MaxSnapDays == 2
\* longest list of promotions handed to _promo_lookup called on its own
MaxPromos == 2
\* largest (end_d - start_d).days handed to gen_promotions called on its own
MaxWindow == 14
\* minutes in a day (00:00 is minute 0, 23:59 the last one)
DayMinutes == 2

\* -------------------------------------------------- program constants
\* len(CATEGORIES)
NumCategories == 6
\* basket_size = min(max(1, basket_size), 8)
MaxBasket == 8
\* min(order_disc, 0.25)
MaxOrderDisc == 25
\* price_round: max(p, 0.01)
MinPrice == 1
\* f"{order_counter:08d}"
PadWidth == 8
\* random.Random(seed + 777)
RndOffset == 777
\* random.random() < 0.25, in percent
PromoChance == 25
\* duration = random.randint(5, 14)
MinDuration == 5
MaxDuration == 14

Max(a, b) == IF a >= b THEN a ELSE b
Min(a, b) == IF a <= b THEN a ELSE b
Abs(a) == IF a >= 0 THEN a ELSE -a

\* round(num / den) to the nearest integer, ties to the even one, as
\* Python's round() does on the decimal value (num >= 0, den > 0)
RoundHalfEven(num, den) ==
    LET q == num \div den
        r == num % den
    IN  IF 2 * r < den THEN q
        ELSE IF 2 * r > den THEN q + 1
        ELSE IF q % 2 = 0 THEN q ELSE q + 1

\* price_round(p) for p == num / den cents: round(max(p, 0.01), 2)
price_round(num, den) == RoundHalfEven(Max(num, MinPrice * den), den)

\* ----------------------------------------------------- dimension generators

\* gen_stores(n): range(1, n + 1); the random attributes (region, city,
\* coordinates, opened_date) are read by no later step and are left out
gen_stores(n) == [i \in 1..n |-> [store_id |-> i]]

\* gen_products without its tail: the gap the category loop leaves stays
gp_fill_skipped(n, product_id, products, ds) == products

\* the tail of gen_products: while product_id <= n, append a filler
RECURSIVE gp_fill(_, _, _, _)
gp_fill(n, product_id, products, ds) ==
    IF product_id <= n
    THEN gp_fill(n, product_id + 1,
                 Append(products,
                        [product_id |-> product_id,
                         base_price |-> price_round(ds[product_id][1], 1)]),
                 ds)
    ELSE products

\* the category loop of gen_products: category c, its j-th product
RECURSIVE gp_categories(_, _, _, _, _, _, _)
gp_categories(n, per_cat, c, j, product_id, products, ds) ==
    IF c > NumCategories
    THEN gp_fill(n, product_id, products, ds)
    ELSE LET p == [product_id |-> product_id,
                   base_price |->
                       price_round(ds[product_id][1] * ds[product_id][2], 100)]
             ps == Append(products, p)
         IN  IF product_id + 1 > n
             THEN ps
             ELSE IF j < per_cat
                  THEN gp_categories(n, per_cat, c, j + 1, product_id + 1, ps, ds)
                  ELSE gp_categories(n, per_cat, c + 1, 1, product_id + 1, ps, ds)

\* gen_products(n); ds[i] == <<uniform(1.0, 30.0) in cents, the multiplier
\* in percent>> are the draws of the i-th product
gen_products(n, ds) ==
    gp_categories(n, Max(1, n \div NumCategories), 1, 1, 1, <<>>, ds)

\* gen_customers(n); ds[i] is randint(30, 365 * 4), now is the wall clock
gen_customers(n, now_, ds) ==
    [i \in 1..n |-> [customer_id |-> i,
                     signup_ts |-> now_ - ds[i] * DayMinutes]]

\* ------------------------------------------------------------- promotions

\* randint(a, b)
RandInt(a, b) == a..b

\* gen_promotions(products, start_d, end_d); ds[i] are the draws made for
\* the i-th product: r == random.random() in percent and, when r < 0.25,
\* duration, offset == randint(0, max(0, (end_d - start_d).days - duration))
\* and disc == round(uniform(0.05, 0.30), 2) in percent
\* a promotion cut off at the end of the window
Promotion_clamped(p, start_d, end_d, d) ==
    [product_id |-> p.product_id,
     start_date |-> start_d + d.offset,
     end_date |-> Min(start_d + d.offset + d.duration, end_d),
     discount_pct |-> d.disc]

\* the promotion of product p from its draws d: lines 213-224
Promotion(p, start_d, end_d, d) ==
    LET start == start_d + d.offset
        end == start + d.duration
    IN  [product_id |-> p.product_id,
         start_date |-> start,
         end_date |-> end,
         discount_pct |-> d.disc]

RECURSIVE gen_promotions_from(_, _, _, _, _, _)
gen_promotions_from(i, promos, products, start_d, end_d, ds) ==
    IF i > Len(products)
    THEN promos
    ELSE IF ds[i].r < PromoChance
         THEN gen_promotions_from(i + 1,
                  Append(promos, Promotion(products[i], start_d, end_d, ds[i])),
                  products, start_d, end_d, ds)
         ELSE gen_promotions_from(i + 1, promos, products, start_d, end_d, ds)

gen_promotions(products, start_d, end_d, ds) ==
    gen_promotions_from(1, <<>>, products, start_d, end_d, ds)

\* _promo_lookup(promos): product_id -> its (start, end, discount) windows
\* in the order of promos (setdefault(pid, []).append)
promo_lookup(promos) ==
    [pid \in {promos[i].product_id : i \in DOMAIN promos} |->
        LET mine == SelectSeq(promos, LAMBDA pr : pr.product_id = pid)
        IN  [k \in DOMAIN mine |->
                <<mine[k].start_date, mine[k].end_date, mine[k].discount_pct>>]]

\* ts.date()
DateOf(ts) == ts \div DayMinutes

\* the discount of the last window holding ts.date()
is_promo_active_last(pid, ts, promo_idx) ==
    IF pid \notin DOMAIN promo_idx
    THEN 0
    ELSE LET d == DateOf(ts)
             hits == {k \in DOMAIN promo_idx[pid] :
                         promo_idx[pid][k][1] <= d /\ d <= promo_idx[pid][k][2]}
         IN  IF hits = {}
             THEN 0
             ELSE promo_idx[pid][CHOOSE k \in hits : \A j \in hits : k >= j][3]

\* windows that leave out their end date
is_promo_active_exclusive(pid, ts, promo_idx) ==
    IF pid \notin DOMAIN promo_idx
    THEN 0
    ELSE LET d == DateOf(ts)
             hits == {k \in DOMAIN promo_idx[pid] :
                         promo_idx[pid][k][1] <= d /\ d < promo_idx[pid][k][2]}
         IN  IF hits = {}
             THEN 0
             ELSE promo_idx[pid][CHOOSE k \in hits : \A j \in hits : k <= j][3]

\* is_promo_active(pid, ts, promo_idx): the first window holding ts.date()
is_promo_active(pid, ts, promo_idx) ==
    IF pid \notin DOMAIN promo_idx
    THEN 0
    ELSE LET d == DateOf(ts)
             hits == {k \in DOMAIN promo_idx[pid] :
                         promo_idx[pid][k][1] <= d /\ d <= promo_idx[pid][k][2]}
         IN  IF hits = {}
             THEN 0
             ELSE promo_idx[pid][CHOOSE k \in hits : \A j \in hits : k <= j][3]

\* ------------------------------------------------------- orders and items

\* the largest x with x * x <= v
ISqrt(v) == CHOOSE x \in 0..v : x * x <= v /\ (x + 1) * (x + 1) > v

\* zipf_like_index(n, s) on the draw r == random.random() in percent:
\* int((r ** (1.0 / (1.0 + s))) * n), clamped to n - 1.  The exponent
\* 1 / 2.15 is taken as 1 / 2 (32-bit integer arithmetic).
zipf_like_index(n, r) ==
    LET idx == (ISqrt(r * 100) * n) \div 100
    IN  IF idx >= n THEN n - 1 ELSE idx

DigitChar == <<"0", "1", "2", "3", "4", "5", "6", "7", "8", "9">>

\* the decimal digits of k >= 0, most significant first
RECURSIVE Digits(_)
Digits(k) ==
    IF k < 10 THEN <<DigitChar[k + 1]>>
    ELSE Append(Digits(k \div 10), DigitChar[(k % 10) + 1])

\* str(k)
Str(k) == IF k < 0 THEN <<"-">> \o Digits(-k) ELSE Digits(k)

\* f"{k:08d}": at least PadWidth digits, zeros on the left
ZeroPad(k) ==
    LET ds == Digits(k)
    IN  IF Len(ds) >= PadWidth THEN ds
        ELSE [i \in 1..(PadWidth - Len(ds)) |-> "0"] \o ds

\* an id without its counter
OrderId_seedonly(seed_, order_counter) == <<"O">> \o Str(seed_)

\* f"O{seed}{order_counter:08d}"
OrderId(seed_, order_counter) == <<"O">> \o Str(seed_) \o ZeroPad(order_counter)

\* order_disc without the cap min(., 0.25)
OrderDisc_uncapped(g, z) == IF z < 60 THEN Max(0, g) ELSE 0

\* order_disc without the floor max(0.0, .) on the gauss
OrderDisc_unfloored(g, z) == IF z < 60 THEN Min(g, MaxOrderDisc) ELSE 0

\* order_disc: round(max(0.0, gauss), 2), then min(., 0.25) when the
\* second draw is below 0.6 and 0.0 otherwise; g is the gauss in percent
\* and z the second draw in percent
OrderDisc(g, z) == IF z < 60 THEN Min(Max(0, g), MaxOrderDisc) ELSE 0

\* basket_size without the leading 1 + and the max(1, .)
BasketSize_zero(g) == Min((Abs(g) * 2) \div 10, MaxBasket)

\* basket_size without the min(., 8)
BasketSize_unclamped(g) == Max(1, 1 + ((Abs(g) * 2) \div 10))

\* basket_size from the gauss g in tenths: 1 + int(abs(g) * 2), in [1, 8]
BasketSize(g) == Min(Max(1, 1 + ((Abs(g) * 2) \div 10)), MaxBasket)

\* qty = 1 if rnd.random() < 0.75 else rnd.randint(2, 5); d == <<r, k>>
Qty(d) == IF d[1] < 75 THEN 1 ELSE d[2]

\* a line whose product_id is the shuffled index itself, not the id of the
\* product at that index (products[-1] is the last product)
LineItem_index(order_id, line_no, products, product_order, r, q) ==
    LET base_idx == zipf_like_index(Len(products), r)
        pid == product_order[base_idx + 1]
        prod == products[((pid - 1) % Len(products)) + 1]
        qty == Qty(q)
        unit_price == prod.base_price
    IN  [order_id |-> order_id,
         line_number |-> line_no,
         product_id |-> pid,
         qty |-> qty,
         unit_price |-> unit_price,
         extended_price |-> price_round(unit_price * qty, 1)]

\* a line that takes its price from the head of the catalog
LineItem_firstprice(order_id, line_no, products, product_order, r, q) ==
    LET base_idx == zipf_like_index(Len(products), r)
        pid == products[product_order[base_idx + 1] + 1].product_id
        qty == Qty(q)
        unit_price == products[1].base_price
    IN  [order_id |-> order_id,
         line_number |-> line_no,
         product_id |-> pid,
         qty |-> qty,
         unit_price |-> unit_price,
         extended_price |-> price_round(unit_price * qty, 1)]

\* one line of the basket: products[product_order[base_idx]] names the
\* product, products[pid - 1] prices it (lists are 1-based here)
LineItem(order_id, line_no, products, product_order, r, q) ==
    LET base_idx == zipf_like_index(Len(products), r)
        pid == products[product_order[base_idx + 1] + 1].product_id
        prod == products[pid]
        qty == Qty(q)
        unit_price == prod.base_price
    IN  [order_id |-> order_id,
         line_number |-> line_no,
         product_id |-> pid,
         qty |-> qty,
         unit_price |-> unit_price,
         extended_price |-> price_round(unit_price * qty, 1)]

\* ------------------------------------------------------ discount pricing

\* {p["product_id"]: p for p in products}: the last row of an id wins
ProductsById(products) ==
    [pid \in {products[i].product_id : i \in DOMAIN products} |->
        products[CHOOSE i \in DOMAIN products :
                    /\ products[i].product_id = pid
                    /\ \A j \in DOMAIN products :
                          products[j].product_id = pid => j <= i]]

\* {o["order_id"]: o for o in orders}
OrderMap(orders) ==
    [oid \in {orders[i].order_id : i \in DOMAIN orders} |->
        orders[CHOOSE i \in DOMAIN orders :
                  /\ orders[i].order_id = oid
                  /\ \A j \in DOMAIN orders :
                        orders[j].order_id = oid => j <= i]]

\* the loop body that leaves extended_price as gen_orders_and_items set it
DiscountItem_stale(it, order_map, products_by_id, promo_idx) ==
    LET order == order_map[it.order_id]
        base_price == products_by_id[it.product_id].base_price
        promo_disc == is_promo_active(it.product_id, order.order_ts, promo_idx)
    IN  [it EXCEPT !.unit_price = price_round(
            base_price * (100 - order.discount_pct) * (100 - promo_disc), 10000)]

\* the loop body that adds the two discounts instead of compounding them
DiscountItem_additive(it, order_map, products_by_id, promo_idx) ==
    LET order == order_map[it.order_id]
        base_price == products_by_id[it.product_id].base_price
        promo_disc == is_promo_active(it.product_id, order.order_ts, promo_idx)
        final_unit == price_round(
            base_price * (100 - order.discount_pct - promo_disc), 100)
    IN  [it EXCEPT !.unit_price = final_unit,
                   !.extended_price = price_round(final_unit * it.qty, 1)]

\* the loop body that turns the line into a line of one unit
DiscountItem_unit(it, order_map, products_by_id, promo_idx) ==
    LET order == order_map[it.order_id]
        base_price == products_by_id[it.product_id].base_price
        promo_disc == is_promo_active(it.product_id, order.order_ts, promo_idx)
        final_unit == price_round(
            base_price * (100 - order.discount_pct) * (100 - promo_disc), 10000)
    IN  [it EXCEPT !.unit_price = final_unit,
                   !.qty = 1,
                   !.extended_price = final_unit]

\* the loop body that discounts the line's current unit_price
DiscountItem_compound(it, order_map, products_by_id, promo_idx) ==
    LET order == order_map[it.order_id]
        promo_disc == is_promo_active(it.product_id, order.order_ts, promo_idx)
        final_unit == price_round(
            it.unit_price * (100 - order.discount_pct) * (100 - promo_disc), 10000)
    IN  [it EXCEPT !.unit_price = final_unit,
                   !.extended_price = price_round(final_unit * it.qty, 1)]

\* the body of the loop of apply_discounts_with_promotions for item it
DiscountItem(it, order_map, products_by_id, promo_idx) ==
    LET order == order_map[it.order_id]
        ts == order.order_ts
        base_price == products_by_id[it.product_id].base_price
        promo_disc == is_promo_active(it.product_id, ts, promo_idx)
        final_unit == price_round(
            base_price * (100 - order.discount_pct) * (100 - promo_disc), 10000)
    IN  [it EXCEPT !.unit_price = final_unit,
                   !.extended_price = price_round(final_unit * it.qty, 1)]

\* apply_discounts_with_promotions(orders, items, products_by_id, promo_idx)
apply_discounts_with_promotions(orders, items, products_by_id, promo_idx) ==
    [i \in DOMAIN items |->
        DiscountItem(items[i], OrderMap(orders), products_by_id, promo_idx)]

\* ------------------------------------------------------------- inventory

\* time(6, 0, 0) as a minute of the day
SnapMinute == (6 * DayMinutes) \div 24

\* a quantity ordered whatever the stock
Reorder_always(on_hand, safety, k) == k

\* int(on_hand < safety) * k, for on_order and for reorder_qty
Reorder(on_hand, safety, k) == (IF on_hand < safety THEN 1 ELSE 0) * k

\* a window that leaves out its last day
SnapDays_exclusive(start_d, end_d) == end_d - start_d

\* days = (end_d - start_d).days + 1
SnapDays(start_d, end_d) == (end_d - start_d) + 1

\* gen_inventory_snapshots(stores, products, start_d, end_d); ds[k] are
\* the draws of the k-th snapshot: g == int(gauss(40, 15)), f ==
\* uniform(0.15, 0.35) in percent, oo == randint(10, 60), rq == randint(10, 40)
gen_inventory_snapshots(stores, products, start_d, end_d, ds) ==
    LET days == SnapDays(start_d, end_d)
        per_day == Len(stores) * Len(products)
    IN  [k \in 1..(days * per_day) |->
            LET d == (k - 1) \div per_day
                s == (((k - 1) % per_day) \div Len(products)) + 1
                p == ((k - 1) % Len(products)) + 1
                on_hand == Max(0, ds[k].g)
                safety == Max(5, (on_hand * ds[k].f) \div 100)
            IN  [snapshot_ts |-> (start_d + d) * DayMinutes + SnapMinute,
                 store_id |-> stores[s].store_id,
                 product_id |-> products[p].product_id,
                 on_hand |-> on_hand,
                 on_order |-> Reorder(on_hand, safety, ds[k].oo),
                 safety_stock |-> safety,
                 reorder_qty |-> Reorder(on_hand, safety, ds[k].rq)]]

\* ------------------------------------------------------------------ state

VARIABLES
    pc,          \* the step the process is at
    args,        \* the arguments of the entry point that was called
    now,         \* the wall clock, datetime.now(timezone.utc), in minutes
    win,         \* the date window: start_d, end_d
    dom,         \* the values the random calls may return in this behaviour
    tracing,     \* whether the streams' values are kept for a later run
    gseed, gtape, gpos, \* the module-level stream `random`: the seed it was
                        \* given, the values it has yielded, the position
    rseed, rtape, rpos, \* the same for rnd == random.Random(seed + 777)
    stores, products, customers, promotions, promo_idx,
    orders, items, inventory,
    loc,         \* the locals of gen_orders_and_items
    prev,        \* the tables returned by the earlier runs of the same call
    files,       \* the tables written out: table name -> rows
    applied,     \* how often this run has called apply_discounts_with_promotions
    ret          \* the value the last call of a pure function returned

tables == <<stores, products, customers, promotions, promo_idx,
            orders, items, inventory>>
gstream == <<gseed, gtape, gpos>>
rstream == <<rseed, rtape, rpos>>
streams == <<gstream, rstream>>
setup == <<args, now, win, dom, tracing>>
io == <<files, applied, ret>>
vars == <<pc, setup, streams, tables, loc, prev, io>>

\* SCALES, with the counts scaled down: stores, products, customers and
\* orders_estimate of "small", "medium" and "large"
SCALES ==
    [small  |-> [stores |-> 1, products |-> 2, customers |-> 1, orders_estimate |-> 2],
     medium |-> [stores |-> 2, products |-> 1, customers |-> 1, orders_estimate |-> 3],
     large  |-> [stores |-> 1, products |-> 1, customers |-> 2, orders_estimate |-> 4]]

\* the seeds, dates and clock readings the behaviours start from
Seeds == {42}
StartDates == {100}
FirstNow == 101 * DayMinutes + 1

\* random.shuffle(list(range(n)))
Shuffles(n) ==
    {f \in [1..n -> 0..(n - 1)] : \A i, j \in 1..n : i # j => f[i] # f[j]}

\* the draws of one product of gen_promotions over a window of w days
PromoDraws(w) ==
    {[r |-> r, duration |-> 0, offset |-> 0, disc |-> 0] :
        r \in {x \in dom.promo_r : x >= PromoChance}}
    \cup UNION {UNION {
        [r : {x \in dom.promo_r : x < PromoChance}, duration : {du},
         offset : RandInt(0, Max(0, w - du)), disc : dom.promo_disc] :
        du \in dom.duration}}

\* the draws of one sampled order: the store and the bias draw r, and,
\* when the order is kept, the customer, the discount draws and the basket
PickDraws == [store : DOMAIN stores, r : dom.rej]
KeepDraws == [customer : DOMAIN customers, disc : dom.disc, basket : dom.basket]

\* the value a stream yields at pos: the one it yielded there before, or a
\* new one from D; and the tape after the values vs were read from pos on
DrawAt(tape, pos, D) == IF tracing /\ pos <= Len(tape) THEN {tape[pos]} ELSE D
TapeAfter(tape, pos, vs) ==
    IF tracing /\ pos + Len(vs) - 1 > Len(tape)
    THEN SubSeq(tape, 1, pos - 1) \o vs
    ELSE tape
PosAfter(pos, vs) == IF tracing THEN pos + Len(vs) ELSE pos

\* reads of the module-level stream and of rnd at their positions
GDraw(D) == DrawAt(gtape, gpos, D)
GRead(v) ==
    /\ gtape' = TapeAfter(gtape, gpos, <<v>>)
    /\ gpos' = PosAfter(gpos, <<v>>)
    /\ gseed' = gseed
RDraw(D) == DrawAt(rtape, rpos, D)
RRead(vs) ==
    /\ rtape' = TapeAfter(rtape, rpos, vs)
    /\ rpos' = PosAfter(rpos, vs)
    /\ rseed' = rseed

\* the stream a seed starts: the one on the tape when the seed is the
\* tape's, a new one otherwise
Seeded(seed_, tape_seed, tape) == IF seed_ = tape_seed THEN tape ELSE <<>>

NoLoc == [product_order |-> <<>>, store_bias |-> <<>>, seed |-> 0,
          current |-> 0, end_dt |-> 0, order_counter |-> 0,
          minute_orders |-> 0, k |-> 0, order_id |-> <<>>,
          basket_size |-> 0, line_no |-> 0, ret |-> "done", surplus |-> 0]

\* datetime.combine(start_d, time(0, 0, 0)), combine(end_d, time(23, 59, 0))
StartDt(start_d) == start_d * DayMinutes
EndDt(end_d) == end_d * DayMinutes + (DayMinutes - 1)

\* ---------------------------------------------------------------- actions

\* --no-overwrite that lets the run go on over the files it finds
Refuses_never == FALSE

\* lines 450-454: --no-overwrite was given and one of the files exists
Refuses == args.no_overwrite /\ DOMAIN files # {}

\* main, lines 425-464: parse_args, which exits on a --scale that is not a
\* key of SCALES; random.seed(args.seed); the --no-overwrite test, which
\* returns 2; the time window
MainStart ==
    /\ pc = "main"
    /\ IF args.scale \notin DOMAIN SCALES
       THEN /\ pc' = "usage_error"
            /\ UNCHANGED <<win, gstream>>
       ELSE /\ gseed' = args.seed
            /\ gtape' = Seeded(args.seed, gseed, gtape)
            /\ gpos' = 1
            /\ IF Refuses
               THEN /\ pc' = "exit_2"
                    /\ win' = win
               ELSE /\ LET start_d == IF args.has_start THEN args.start_date
                                      ELSE DateOf(now) - (args.days - 1)
                       IN  win' = [start_d |-> start_d,
                                   end_d |-> start_d + (args.days - 1)]
                    /\ pc' = "gen_stores"
    /\ UNCHANGED <<args, now, dom, tracing, rstream, tables, loc, prev, io>>

\* stores = gen_stores(n, start_d)
GenStores(n, next) ==
    /\ pc = "gen_stores"
    /\ stores' = gen_stores(n)
    /\ pc' = next
    /\ UNCHANGED <<setup, streams, products, customers, promotions, promo_idx,
                   orders, items, inventory, loc, prev, io>>

\* products = gen_products(n)
GenProducts(n, next) ==
    /\ pc = "gen_products"
    /\ \E ds \in GDraw([1..Max(n, 1) -> dom.price]) :
          /\ products' = gen_products(n, ds)
          /\ GRead(ds)
    /\ pc' = next
    /\ UNCHANGED <<setup, rstream, stores, customers, promotions, promo_idx,
                   orders, items, inventory, loc, prev, io>>

\* customers = gen_customers(n)
GenCustomers(n, next) ==
    /\ pc = "gen_customers"
    /\ \E ds \in GDraw([1..n -> dom.signup]) :
          /\ customers' = gen_customers(n, now, ds)
          /\ GRead(ds)
    /\ pc' = next
    /\ UNCHANGED <<setup, rstream, stores, products, promotions, promo_idx,
                   orders, items, inventory, loc, prev, io>>

\* promotions = gen_promotions(products, start_d, end_d)
GenPromotions(next) ==
    /\ pc = "gen_promotions"
    /\ \E ds \in GDraw([DOMAIN products -> PromoDraws(win.end_d - win.start_d)]) :
          /\ promotions' = gen_promotions(products, win.start_d, win.end_d, ds)
          /\ GRead(ds)
    /\ pc' = next
    /\ UNCHANGED <<setup, rstream, stores, products, customers, promo_idx,
                   orders, items, inventory, loc, prev, io>>

\* promo_idx = _promo_lookup(promotions)
PromoLookup(next) ==
    /\ pc = "promo_lookup"
    /\ promo_idx' = promo_lookup(promotions)
    /\ pc' = next
    /\ UNCHANGED <<setup, streams, stores, products, customers, promotions,
                   orders, items, inventory, loc, prev, io>>

\* gen_orders_and_items, lines 255-270: rnd, product_order, store_bias
OrdersEnter(seed_, start_dt, end_dt, next) ==
    /\ pc = "gen_orders"
    /\ LET tape == Seeded(seed_ + RndOffset, rseed, rtape)
       IN  \E d \in DrawAt(tape, 1,
                       [product_order : Shuffles(Len(products)),
                        store_bias : [{stores[i].store_id : i \in DOMAIN stores}
                                         -> dom.bias]]) :
              /\ loc' = [NoLoc EXCEPT !.product_order = d.product_order,
                                      !.store_bias = d.store_bias,
                                      !.seed = seed_,
                                      !.current = start_dt,
                                      !.end_dt = end_dt,
                                      !.ret = next]
              /\ rseed' = seed_ + RndOffset
              /\ rtape' = TapeAfter(tape, 1, <<d>>)
              /\ rpos' = PosAfter(1, <<d>>)
    /\ orders' = <<>>
    /\ items' = <<>>
    /\ pc' = "minute"
    /\ UNCHANGED <<setup, gstream, stores, products, customers, promotions,
                   promo_idx, inventory, prev, io>>

\* while current <= end_dt: minute_orders = 0
MinuteBegin ==
    /\ pc = "minute"
    /\ loc.current <= loc.end_dt
    /\ loc' = [loc EXCEPT !.minute_orders = 0, !.k = 0]
    /\ pc' = "coin"
    /\ UNCHANGED <<setup, streams, tables, prev, io>>

\* while rnd.random() < p: minute_orders += 1, with 0 < p < 1
CoinFlip ==
    /\ pc = "coin"
    /\ \E heads \in RDraw(IF loc.order_counter + loc.minute_orders < MaxOrders
                          THEN BOOLEAN ELSE {FALSE}) :
          /\ RRead(<<heads>>)
          /\ IF heads
             THEN /\ loc' = [loc EXCEPT !.minute_orders = @ + 1]
                  /\ pc' = "coin"
             ELSE /\ loc' = loc
                  /\ pc' = "order"
    /\ UNCHANGED <<setup, gstream, tables, prev, io>>

\* while rnd.random() < p, past the orders the model counts: a success
\* that adds no order; surplus tells one such success from the next
CoinSurplus ==
    /\ pc = "coin"
    /\ loc.order_counter + loc.minute_orders >= MaxOrders
    /\ loc' = [loc EXCEPT !.surplus = 1 - @]
    /\ pc' = "coin"
    /\ UNCHANGED <<setup, streams, tables, prev, io>>

\* for _ in range(minute_orders): lines 285-310, one sampled order
SampleOrder ==
    /\ pc = "order"
    /\ loc.k < loc.minute_orders
    /\ \E d \in RDraw(PickDraws) :
          LET order_counter == loc.order_counter + 1
              order_id == OrderId(loc.seed, order_counter)
              store == stores[d.store]
          IN  IF d.r > loc.store_bias[store.store_id]
              THEN /\ RRead(<<d>>)
                   /\ loc' = [loc EXCEPT !.order_counter = order_counter,
                                         !.order_id = order_id,
                                         !.k = @ + 1]
                   /\ orders' = orders
                   /\ pc' = "order"
              ELSE \E e \in DrawAt(rtape, rpos + 1, KeepDraws) :
                   /\ RRead(<<d, e>>)
                   /\ loc' = [loc EXCEPT !.order_counter = order_counter,
                                         !.order_id = order_id,
                                         !.basket_size = BasketSize(e.basket),
                                         !.line_no = 1]
                   /\ orders' = Append(orders,
                         [order_id |-> order_id,
                          store_id |-> store.store_id,
                          customer_id |-> customers[e.customer].customer_id,
                          order_ts |-> loc.current,
                          discount_pct |-> OrderDisc(e.disc[1], e.disc[2])])
                   /\ pc' = "line"
    /\ UNCHANGED <<setup, gstream, stores, products, customers, promotions,
                   promo_idx, items, inventory, prev, io>>

\* for line_no in range(1, basket_size + 1): lines 313-334, one line
EmitLine ==
    /\ pc = "line"
    /\ loc.line_no <= loc.basket_size
    /\ \E r \in GDraw(dom.zipf) : \E q \in RDraw(dom.qty) :
          /\ GRead(r)
          /\ RRead(<<q>>)
          /\ items' = Append(items,
                LineItem(loc.order_id, loc.line_no, products,
                         loc.product_order, r, q))
    /\ loc' = [loc EXCEPT !.line_no = @ + 1]
    /\ pc' = "line"
    /\ UNCHANGED <<setup, stores, products, customers, promotions, promo_idx,
                   orders, inventory, prev, io>>

\* the basket is full: on to the next sampled order of the minute
LinesEnd ==
    /\ pc = "line"
    /\ loc.line_no > loc.basket_size
    /\ loc' = [loc EXCEPT !.k = @ + 1]
    /\ pc' = "order"
    /\ UNCHANGED <<setup, streams, tables, prev, io>>

\* a cursor that stays where it is
MinuteEnd_stuck ==
    /\ pc = "order"
    /\ loc.k >= loc.minute_orders
    /\ loc' = [loc EXCEPT !.k = 0, !.minute_orders = 0]
    /\ pc' = "minute"
    /\ UNCHANGED <<setup, streams, tables, prev, io>>

\* a cursor that moves on by two minutes
MinuteEnd_skip ==
    /\ pc = "order"
    /\ loc.k >= loc.minute_orders
    /\ loc' = [loc EXCEPT !.current = @ + 2]
    /\ pc' = "minute"
    /\ UNCHANGED <<setup, streams, tables, prev, io>>

\* current += timedelta(minutes=1)
MinuteEnd ==
    /\ pc = "order"
    /\ loc.k >= loc.minute_orders
    /\ loc' = [loc EXCEPT !.current = @ + 1]
    /\ pc' = "minute"
    /\ UNCHANGED <<setup, streams, tables, prev, io>>

\* return orders, items
OrdersReturn ==
    /\ pc = "minute"
    /\ loc.current > loc.end_dt
    /\ pc' = loc.ret
    /\ UNCHANGED <<setup, streams, tables, loc, prev, io>>

\* the step left out: the items keep their provisional prices
ApplyDiscounts_skipped(next) ==
    /\ pc = "apply_discounts"
    /\ pc' = next
    /\ UNCHANGED <<setup, streams, tables, loc, prev, io>>

\* apply_discounts_with_promotions(orders, items, products_by_id, promo_idx)
ApplyDiscounts(next) ==
    /\ pc = "apply_discounts"
    /\ items' = apply_discounts_with_promotions(
                    orders, items, ProductsById(products), promo_idx)
    /\ applied' = applied + 1
    /\ pc' = next
    /\ UNCHANGED <<setup, streams, stores, products, customers, promotions,
                   promo_idx, orders, inventory, loc, prev, files, ret>>

\* inventory = gen_inventory_snapshots(stores, products, start_d, end_d)
GenInventory(next) ==
    /\ pc = "gen_inventory"
    /\ LET n == ((win.end_d - win.start_d) + 1) * Len(stores) * Len(products)
       IN  \E ds \in GDraw([1..n -> dom.inv]) :
              /\ inventory' = gen_inventory_snapshots(
                                  stores, products, win.start_d, win.end_d, ds)
              /\ GRead(ds)
    /\ pc' = next
    /\ UNCHANGED <<setup, rstream, stores, products, customers, promotions,
                   promo_idx, orders, items, loc, prev, io>>

\* the tables a run writes out
Output ==
    [stores |-> stores, products |-> products, customers |-> customers,
     promotions |-> promotions, orders |-> orders, order_items |-> items,
     inventory_snapshots |-> inventory]

\* the seven write_csv calls of main, lines 493-506
WriteCsv ==
    /\ pc = "write_csv"
    /\ files' = Output
    /\ pc' = "done"
    /\ UNCHANGED <<setup, streams, tables, loc, prev, applied, ret>>

\* --------------------------------------------- the values the draws take

\* one value for every random call; each profile below widens a few
BaseDraws ==
    [price      |-> {<<1999, 95>>},
     signup     |-> {30},
     promo_r    |-> {60},
     duration   |-> {5},
     promo_disc |-> {30},
     bias       |-> {130},
     rej        |-> {50},
     disc       |-> {<<5, 10>>},
     basket     |-> {2},
     zipf       |-> {0},
     qty        |-> {<<10, 0>>},
     inv        |-> {[g |-> 40, f |-> 25, oo |-> 10, rq |-> 10]}]

\* stores that reject, products chosen over the whole catalog
ChoiceDraws ==
    [BaseDraws EXCEPT !.bias = {70, 130}, !.rej = {50, 90},
                      !.zipf = {0, 99}, !.promo_r = {10, 60}]

\* baskets of 1, 3 and 10 (clamped) lines, no discount
BasketDraws ==
    [BaseDraws EXCEPT !.basket = {2, 10, 45}, !.disc = {<<-2, 10>>}]

\* prices, order discounts of 30 (capped) and 0 (forced) percent,
\* promotions of 5 and 30 percent, lines of 3 units
PriceDraws ==
    [BaseDraws EXCEPT !.price = {<<1999, 95>>, <<105, 90>>},
                      !.disc = {<<30, 10>>, <<5, 80>>},
                      !.promo_r = {10, 60}, !.promo_disc = {5, 30},
                      !.qty = {<<90, 3>>}]

\* stock above, at and below the safety stock, and none at all
StockDraws ==
    [BaseDraws EXCEPT !.inv = {[g |-> 40, f |-> 25, oo |-> 10, rq |-> 10],
                              [g |-> 5, f |-> 15, oo |-> 10, rq |-> 10],
                              [g |-> 3, f |-> 15, oo |-> 60, rq |-> 40],
                              [g |-> -5, f |-> 35, oo |-> 10, rq |-> 10]}]

Profiles == {ChoiceDraws, BasketDraws, PriceDraws, StockDraws}

\* promotions of every duration
WindowDraws ==
    [BaseDraws EXCEPT !.promo_r = {10, 60},
                      !.duration = RandInt(MinDuration, MaxDuration)]

\* ------------------------------------------------------- specifications

NoArgs == [seed |-> 0, scale |-> "small", days |-> 0, has_start |-> FALSE,
           start_date |-> 0, count |-> 0, overwrite |-> TRUE, entry |-> "main",
           no_overwrite |-> FALSE]

InitTables ==
    /\ stores = <<>> /\ products = <<>> /\ customers = <<>>
    /\ promotions = <<>> /\ promo_idx = <<>>
    /\ orders = <<>> /\ items = <<>> /\ inventory = <<>>

\* nothing written, nothing called
NoFiles == [name \in {} |-> <<>>]
InitIo == files = NoFiles /\ applied = 0 /\ ret = 0

InitStreams ==
    /\ gseed = -1 /\ gtape = <<>> /\ gpos = 1
    /\ rseed = -1 /\ rtape = <<>> /\ rpos = 1

\* seed_data.main(argv): one run of the generator
Init ==
    /\ pc = "main"
    /\ args \in [seed : Seeds, scale : DOMAIN SCALES, days : 0..MaxDays,
                 has_start : BOOLEAN, start_date : StartDates, count : {0}, overwrite : {TRUE}, entry : {"main"}, no_overwrite : {FALSE}]
    /\ now = FirstNow
    /\ win = [start_d |-> 0, end_d |-> 0]
    /\ dom \in Profiles
    /\ tracing = FALSE
    /\ InitStreams
    /\ InitTables
    /\ loc = NoLoc
    /\ prev = <<>>
    /\ InitIo

OrdersLoop ==
    \/ MinuteBegin
    \/ CoinFlip
    \/ SampleOrder
    \/ EmitLine
    \/ LinesEnd
    \/ MinuteEnd
    \/ OrdersReturn

Run ==
    \/ MainStart
    \/ GenStores(SCALES[args.scale].stores, "gen_products")
    \/ GenProducts(SCALES[args.scale].products, "gen_customers")
    \/ GenCustomers(SCALES[args.scale].customers, "gen_promotions")
    \/ GenPromotions("promo_lookup")
    \/ PromoLookup("gen_orders")
    \/ OrdersEnter(args.seed, StartDt(win.start_d), EndDt(win.end_d),
                   "apply_discounts")
    \/ OrdersLoop
    \/ ApplyDiscounts("gen_inventory")
    \/ GenInventory("write_csv")
    \/ WriteCsv

Next == Run

Spec == Init /\ [][Next]_vars

\* a dimension generator called on its own with a count of 0..MaxCount
InitDims ==
    /\ pc \in {"gen_stores", "gen_products", "gen_customers"}
    /\ args \in [seed : {0}, scale : {"small"}, days : {0}, has_start : {FALSE},
                 start_date : {0}, count : 0..MaxCount, overwrite : {TRUE},
                 entry : {"main"}, no_overwrite : {FALSE}]
    /\ now = FirstNow
    /\ win = [start_d |-> 0, end_d |-> 0]
    /\ dom = PriceDraws
    /\ tracing = FALSE
    /\ InitStreams
    /\ InitTables
    /\ loc = NoLoc
    /\ prev = <<>>
    /\ InitIo

NextDims ==
    \/ GenStores(args.count, "ret_stores")
    \/ GenProducts(args.count, "ret_products")
    \/ GenCustomers(args.count, "ret_customers")

SpecDims == InitDims /\ [][NextDims]_vars

\* a second run of main, in a new process at a later time, with the
\* arguments of the first
Rerun ==
    /\ pc = "done"
    /\ prev = <<>>
    /\ prev' = <<[win |-> win, out |-> Output]>>
    /\ now' \in {now + 1, now + DayMinutes}
    /\ stores' = <<>> /\ products' = <<>> /\ customers' = <<>>
    /\ promotions' = <<>> /\ promo_idx' = <<>>
    /\ orders' = <<>> /\ items' = <<>> /\ inventory' = <<>>
    /\ loc' = NoLoc
    /\ applied' = 0
    /\ pc' = "main"
    /\ UNCHANGED <<args, win, dom, tracing, streams, files, ret>>

InitRerun ==
    /\ pc = "main"
    /\ args \in [seed : Seeds, scale : DOMAIN SCALES, days : 0..MaxDays,
                 has_start : BOOLEAN, start_date : StartDates, count : {0}, overwrite : {TRUE}, entry : {"main"}, no_overwrite : {FALSE}]
    /\ now = FirstNow
    /\ win = [start_d |-> 0, end_d |-> 0]
    /\ dom = ChoiceDraws
    /\ tracing = TRUE
    /\ InitStreams
    /\ InitTables
    /\ loc = NoLoc
    /\ prev = <<>>
    /\ InitIo

NextRerun ==
    \/ Run
    \/ Rerun

SpecRerun == InitRerun /\ [][NextRerun]_vars

\* gen_orders_and_items called twice in one process with the same
\* arguments; the caller has not seeded the module-level stream
CallAgain ==
    /\ pc = "returned"
    /\ prev = <<>>
    /\ prev' = <<[orders |-> orders, items |-> items]>>
    /\ pc' = "gen_orders"
    /\ UNCHANGED <<setup, streams, tables, loc, io>>

InitCalls ==
    /\ pc = "gen_orders"
    /\ args \in [seed : Seeds, scale : DOMAIN SCALES, days : 0..MaxDays,
                 has_start : {TRUE}, start_date : StartDates, count : {0}, overwrite : {TRUE}, entry : {"main"}, no_overwrite : {FALSE}]
    /\ now = FirstNow
    /\ win = [start_d |-> args.start_date,
              end_d |-> args.start_date + (args.days - 1)]
    /\ dom = ChoiceDraws
    /\ tracing = TRUE
    /\ InitStreams
    /\ stores = gen_stores(SCALES[args.scale].stores)
    /\ products \in {gen_products(SCALES[args.scale].products, ds) :
                        ds \in [1..SCALES[args.scale].products -> dom.price]}
    /\ customers \in {gen_customers(SCALES[args.scale].customers, now, ds) :
                        ds \in [1..SCALES[args.scale].customers -> dom.signup]}
    /\ promotions = <<>> /\ promo_idx = <<>>
    /\ orders = <<>> /\ items = <<>> /\ inventory = <<>>
    /\ loc = NoLoc
    /\ prev = <<>>
    /\ InitIo

NextCalls ==
    \/ OrdersEnter(args.seed, StartDt(win.start_d), EndDt(win.end_d), "returned")
    \/ OrdersLoop
    \/ CallAgain

SpecCalls == InitCalls /\ [][NextCalls]_vars

\* a job that creates its first table before it looks at the scale
JobStart_late ==
    /\ pc = "job"
    /\ args.scale \notin DOMAIN SCALES
    /\ files' = [n \in DOMAIN files \cup {"stores"} |->
                    IF n = "stores" THEN <<>> ELSE files[n]]
    /\ pc' = "failed"
    /\ UNCHANGED <<setup, streams, tables, loc, prev, applied, ret>>

\* generate_data_job.py, lines 80-93: the scale lookup, which raises
\* ValueError on an unknown scale, random.seed(seed) and the window, which
\* always ends today
JobStart ==
    /\ pc = "job"
    /\ IF args.scale \notin DOMAIN SCALES
       THEN /\ pc' = "failed"
            /\ UNCHANGED <<win, gstream>>
       ELSE /\ LET start_d == DateOf(now) - (args.days - 1)
               IN  win' = [start_d |-> start_d,
                           end_d |-> start_d + (args.days - 1)]
            /\ gseed' = args.seed
            /\ gtape' = Seeded(args.seed, gseed, gtape)
            /\ gpos' = 1
            /\ pc' = "gen_stores"
    /\ UNCHANGED <<args, now, dom, tracing, rstream, tables, loc, prev, io>>

\* create_dataframe_from_dicts(rows, name), which raises ValueError on an
\* empty list, and write_dataframe_to_delta(df, name, overwrite)
WriteDelta(at, name, rows, next) ==
    /\ pc = at
    /\ IF rows = <<>>
       THEN /\ pc' = "failed"
            /\ files' = files
       ELSE /\ pc' = next
            /\ files' = [n \in DOMAIN files \cup {name} |->
                            IF n # name THEN files[n]
                            ELSE IF args.overwrite \/ name \notin DOMAIN files
                                 THEN rows
                                 ELSE files[name] \o rows]
    /\ UNCHANGED <<setup, streams, tables, loc, prev, applied, ret>>

\* the try block of generate_data_job.py, lines 129-175
Job ==
    \/ JobStart
    \/ GenStores(SCALES[args.scale].stores, "w_stores")
    \/ WriteDelta("w_stores", "stores", stores, "gen_products")
    \/ GenProducts(SCALES[args.scale].products, "w_products")
    \/ WriteDelta("w_products", "products", products, "gen_customers")
    \/ GenCustomers(SCALES[args.scale].customers, "w_customers")
    \/ WriteDelta("w_customers", "customers", customers, "gen_promotions")
    \/ GenPromotions("w_promotions")
    \/ WriteDelta("w_promotions", "promotions", promotions, "gen_orders")
    \/ OrdersEnter(args.seed, StartDt(win.start_d), EndDt(win.end_d),
                   "promo_lookup")
    \/ OrdersLoop
    \/ PromoLookup("apply_discounts")
    \/ ApplyDiscounts("w_orders")
    \/ WriteDelta("w_orders", "orders", orders, "w_order_items")
    \/ WriteDelta("w_order_items", "order_items", items, "gen_inventory")
    \/ GenInventory("w_inventory")
    \/ WriteDelta("w_inventory", "inventory_snapshots", inventory, "done")

\* what a run may find where it writes: nothing, or the orders of an
\* earlier run
OldFiles ==
    [orders |-> <<[order_id |-> OrderId(7, 1), store_id |-> 1,
                   customer_id |-> 1, order_ts |-> 0, discount_pct |-> 0]>>]

\* a run of either entry point: seed_data.main with or without
\* --no-overwrite, or the pipeline job in overwrite or append mode; the
\* scale may be one that SCALES does not have
InitRuns ==
    /\ args \in [seed : Seeds, scale : DOMAIN SCALES \cup {"huge"},
                 days : 0..MaxDays,
                 has_start : {FALSE}, start_date : StartDates, count : {0},
                 overwrite : BOOLEAN, entry : {"main", "job"},
                 no_overwrite : BOOLEAN]
    /\ args.entry = "main" => args.overwrite
    /\ args.entry = "job" => ~args.no_overwrite
    /\ pc = args.entry
    /\ now = FirstNow
    /\ win = [start_d |-> 0, end_d |-> 0]
    /\ dom = ChoiceDraws
    /\ tracing = FALSE
    /\ InitStreams
    /\ InitTables
    /\ loc = NoLoc
    /\ prev = <<>>
    /\ files \in {NoFiles, OldFiles}
    /\ applied = 0
    /\ ret = 0

NextRuns ==
    \/ args.entry = "main" /\ Run
    \/ args.entry = "job" /\ Job

SpecRuns == InitRuns /\ [][NextRuns]_vars

\* gen_promotions(products, start_d, end_d) called on its own, the window
\* from two days short of a day (end_d before start_d) to MaxWindow days
InitPromos ==
    /\ pc = "gen_promotions"
    /\ args \in [seed : {0}, scale : {"small"}, days : {0}, has_start : {FALSE},
                 start_date : {0}, count : 1..2, overwrite : {TRUE},
                 entry : {"main"}, no_overwrite : {FALSE}]
    /\ now = FirstNow
    /\ \E start_d \in StartDates : \E w \in -2..MaxWindow :
          win = [start_d |-> start_d, end_d |-> start_d + w]
    /\ dom = WindowDraws
    /\ tracing = FALSE
    /\ InitStreams
    /\ stores = <<>> /\ customers = <<>>
    /\ products \in {gen_products(args.count, ds) :
                        ds \in [1..args.count -> dom.price]}
    /\ promotions = <<>> /\ promo_idx = <<>>
    /\ orders = <<>> /\ items = <<>> /\ inventory = <<>>
    /\ loc = NoLoc
    /\ prev = <<>>
    /\ InitIo

NextPromos == GenPromotions("ret_promotions")

SpecPromos == InitPromos /\ [][NextPromos]_vars

\* is_promo_active(pid, ts, promo_idx) for the product of the line and the
\* timestamp of its order
IsPromoActive(next) ==
    /\ pc = "is_promo_active"
    /\ ret' = is_promo_active(items[1].product_id, orders[1].order_ts, promo_idx)
    /\ pc' = next
    /\ UNCHANGED <<setup, streams, tables, loc, prev, files, applied>>

\* the promotions a list handed to _promo_lookup is made of: windows of
\* two products that start on one of two days and last 5 or 6 days
PromoRows ==
    {Promotion([product_id |-> pid], start_d, start_d, d) :
        pid \in 1..2, start_d \in StartDates,
        d \in [offset : 0..1, duration : {MinDuration, MinDuration + 1},
               disc : {5, 30}]}

\* the lists of at most n elements of S
RECURSIVE ListsUpTo(_, _)
ListsUpTo(S, n) ==
    IF n = 0 THEN {<<>>}
    ELSE LET shorter == ListsUpTo(S, n - 1)
         IN  shorter \cup {Append(l, x) : l \in shorter, x \in S}

\* _promo_lookup, is_promo_active and apply_discounts_with_promotions over
\* a list of promotions, one order at some minute from the day before the
\* first window to the day after the last, and one line of that order
InitLookup ==
    /\ pc = "promo_lookup"
    /\ args = [NoArgs EXCEPT !.seed = 42]
    /\ now = FirstNow
    /\ win = [start_d |-> 0, end_d |-> 0]
    /\ dom = BaseDraws
    /\ tracing = FALSE
    /\ InitStreams
    /\ stores = gen_stores(1)
    /\ products \in {gen_products(2, ds) : ds \in [1..2 -> dom.price]}
    /\ customers \in {gen_customers(1, now, ds) : ds \in [1..1 -> dom.signup]}
    /\ promotions \in ListsUpTo(PromoRows, MaxPromos)
    /\ promo_idx = <<>>
    /\ \E d \in 99..(102 + MinDuration + 1) : \E m \in 0..(DayMinutes - 1) :
          orders = <<[order_id |-> OrderId(args.seed, 1),
                      store_id |-> stores[1].store_id,
                      customer_id |-> customers[1].customer_id,
                      order_ts |-> d * DayMinutes + m,
                      discount_pct |-> 0]>>
    /\ \E po \in Shuffles(Len(products)) : \E r \in dom.zipf : \E q \in dom.qty :
          items = <<LineItem(OrderId(args.seed, 1), 1, products, po, r, q)>>
    /\ inventory = <<>>
    /\ loc = NoLoc
    /\ prev = <<>>
    /\ InitIo

NextLookup ==
    \/ PromoLookup("is_promo_active")
    \/ IsPromoActive("apply_discounts")
    \/ ApplyDiscounts("looked_up")

SpecLookup == InitLookup /\ [][NextLookup]_vars

\* gen_inventory_snapshots(stores, products, start_d, end_d) called on its
\* own, over windows of no day (end_d before start_d) to MaxSnapDays days,
\* in a process that has or has not generated an order
InitInv ==
    /\ pc = "gen_inventory"
    /\ args \in [seed : Seeds, scale : DOMAIN SCALES, days : {0},
                 has_start : {TRUE}, start_date : StartDates, count : {0},
                 overwrite : {TRUE}, entry : {"main"}, no_overwrite : {FALSE}]
    /\ now = FirstNow
    /\ \E w \in -2..(MaxSnapDays - 1) :
          win = [start_d |-> args.start_date, end_d |-> args.start_date + w]
    /\ dom = StockDraws
    /\ tracing = FALSE
    /\ InitStreams
    /\ stores = gen_stores(SCALES[args.scale].stores)
    /\ products \in {gen_products(SCALES[args.scale].products, ds) :
                        ds \in [1..SCALES[args.scale].products -> dom.price]}
    /\ customers \in {gen_customers(SCALES[args.scale].customers, now, ds) :
                        ds \in [1..SCALES[args.scale].customers -> dom.signup]}
    /\ promotions = <<>> /\ promo_idx = <<>>
    /\ orders \in {<<>>, <<[order_id |-> OrderId(args.seed, 1),
                            store_id |-> stores[1].store_id,
                            customer_id |-> customers[1].customer_id,
                            order_ts |-> StartDt(win.start_d),
                            discount_pct |-> 0]>>}
    /\ items = <<>> /\ inventory = <<>>
    /\ loc = NoLoc
    /\ prev = <<>>
    /\ InitIo

NextInv == GenInventory("ret_inventory")

SpecInv == InitInv /\ [][NextInv]_vars

\* the values of random.random(), in percent, spread evenly over [0, 1)
ZipfGrid == 0..99

\* zipf_like_index(n) called on its own: one read of the module-level
\* stream, which the state keeps, and the index returned
ZipfCall ==
    /\ pc = "zipf"
    /\ \E r \in GDraw(ZipfGrid) :
          /\ GRead(r)
          /\ ret' = zipf_like_index(args.count, r)
    /\ pc' = "zipf_ret"
    /\ UNCHANGED <<setup, rstream, tables, loc, prev, files, applied>>

InitZipf ==
    /\ pc = "zipf"
    /\ args \in [seed : {0}, scale : {"small"}, days : {0}, has_start : {FALSE},
                 start_date : {0}, count : 1..MaxCount, overwrite : {TRUE},
                 entry : {"main"}, no_overwrite : {FALSE}]
    /\ now = FirstNow
    /\ win = [start_d |-> 0, end_d |-> 0]
    /\ dom = BaseDraws
    /\ tracing = TRUE
    /\ InitStreams
    /\ InitTables
    /\ loc = NoLoc
    /\ prev = <<>>
    /\ InitIo

NextZipf == ZipfCall

SpecZipf == InitZipf /\ [][NextZipf]_vars

\* ------------------------------------------ src/app/databricks/auth.py

\* a field of AppConfig that was not configured, and the values a field
\* may hold: None, the empty string, a string
None == "None"
ConfigValues == {None, "", "set"}

\* the truth value of an Optional[str] in an if
Truthy(v) == v # None /\ v # ""

\* a precedence that puts the manual token before the service principal
get_databricks_config_token_first(config) ==
    IF Truthy(config.databricks_host) /\ Truthy(config.databricks_token)
    THEN [raised |-> FALSE,
          kwargs |-> [host |-> config.databricks_host,
                      token |-> config.databricks_token]]
    ELSE IF /\ Truthy(config.databricks_client_id)
            /\ Truthy(config.databricks_client_secret)
    THEN [raised |-> FALSE,
          kwargs |-> [host |-> config.databricks_host,
                      client_id |-> config.databricks_client_id,
                      client_secret |-> config.databricks_client_secret]]
    ELSE IF Truthy(config.databricks_host)
    THEN [raised |-> FALSE, kwargs |-> [host |-> config.databricks_host]]
    ELSE [raised |-> TRUE, kwargs |-> [k \in {} |-> None]]

\* DatabricksAuthentication.get_databricks_config: the keyword arguments
\* DatabricksConfig is built from, or RuntimeError
get_databricks_config(config) ==
    IF /\ Truthy(config.databricks_client_id)
       /\ Truthy(config.databricks_client_secret)
    THEN [raised |-> FALSE,
          kwargs |-> [host |-> config.databricks_host,
                      client_id |-> config.databricks_client_id,
                      client_secret |-> config.databricks_client_secret]]
    ELSE IF Truthy(config.databricks_host) /\ Truthy(config.databricks_token)
    THEN [raised |-> FALSE,
          kwargs |-> [host |-> config.databricks_host,
                      token |-> config.databricks_token]]
    ELSE IF Truthy(config.databricks_host)
    THEN [raised |-> FALSE, kwargs |-> [host |-> config.databricks_host]]
    ELSE [raised |-> TRUE, kwargs |-> [k \in {} |-> None]]

\* a call of get_databricks_config on the AppConfig held in args
GetConfig ==
    /\ pc = "auth"
    /\ LET r == get_databricks_config(args)
       IN  /\ ret' = r.kwargs
           /\ pc' = IF r.raised THEN "auth_raised" ELSE "auth_returned"
    /\ UNCHANGED <<setup, streams, tables, loc, prev, files, applied>>

InitAuth ==
    /\ pc = "auth"
    /\ args \in [databricks_host : ConfigValues,
                 databricks_token : ConfigValues,
                 databricks_client_id : ConfigValues,
                 databricks_client_secret : ConfigValues]
    /\ now = FirstNow
    /\ win = [start_d |-> 0, end_d |-> 0]
    /\ dom = BaseDraws
    /\ tracing = FALSE
    /\ InitStreams
    /\ InitTables
    /\ loc = NoLoc
    /\ prev = <<>>
    /\ InitIo

NextAuth == GetConfig

SpecAuth == InitAuth /\ [][NextAuth]_vars

\* -------------------------------------------------------------------------

\* one call of gen_orders_and_items over the dimension lists of a scale:
\* every step of it is taken in the end, the coin may go on succeeding
\* past MaxOrders, and a coin that is flipped again and again fails in the
\* end (0 < p < 1)
InitOrders ==
    /\ pc = "gen_orders"
    /\ args \in [seed : Seeds, scale : DOMAIN SCALES, days : 0..MaxDays,
                 has_start : {TRUE}, start_date : StartDates, count : {0},
                 overwrite : {TRUE}, entry : {"main"}, no_overwrite : {FALSE}]
    /\ now = FirstNow
    /\ win = [start_d |-> args.start_date,
              end_d |-> args.start_date + (args.days - 1)]
    /\ dom = ChoiceDraws
    /\ tracing = FALSE
    /\ InitStreams
    /\ stores = gen_stores(SCALES[args.scale].stores)
    /\ products \in {gen_products(SCALES[args.scale].products, ds) :
                        ds \in [1..SCALES[args.scale].products -> dom.price]}
    /\ customers \in {gen_customers(SCALES[args.scale].customers, now, ds) :
                        ds \in [1..SCALES[args.scale].customers -> dom.signup]}
    /\ promotions = <<>> /\ promo_idx = <<>>
    /\ orders = <<>> /\ items = <<>> /\ inventory = <<>>
    /\ loc = NoLoc
    /\ prev = <<>>
    /\ InitIo

NextOrders ==
    \/ OrdersEnter(args.seed, StartDt(win.start_d), EndDt(win.end_d), "returned")
    \/ OrdersLoop
    \/ CoinSurplus

\* the coin fails: the step of CoinFlip that leaves the while loop
Tails == CoinFlip /\ pc' = "order"

SpecOrders ==
    /\ InitOrders
    /\ [][NextOrders]_vars
    /\ WF_vars(NextOrders)
    /\ SF_vars(Tails)

\* lines 285-286 on their own: order_counter += 1 and the id built from it
NextId ==
    /\ pc = "order_id"
    /\ loc' = [loc EXCEPT !.order_counter = @ + 1,
                          !.order_id = OrderId(loc.seed, loc.order_counter + 1)]
    /\ pc' = "id_made"
    /\ UNCHANGED <<setup, streams, tables, prev, io>>

\* the seeds of two runs and the values order_counter holds before an
\* order is sampled: at the start of a run and near the eight-digit limit
IdSeeds == {1, 11, 4, 42}
IdCounters == {0, 1, 99999999, 100000000, 200000000}

\* a run with another seed, at some order of its own
OtherRun ==
    /\ pc = "id_made"
    /\ prev = <<>>
    /\ prev' = <<[seed |-> loc.seed, order_counter |-> loc.order_counter,
                  order_id |-> loc.order_id]>>
    /\ \E seed_ \in IdSeeds \ {loc.seed} : \E c \in IdCounters :
          loc' = [NoLoc EXCEPT !.seed = seed_, !.order_counter = c]
    /\ pc' = "order_id"
    /\ UNCHANGED <<setup, streams, tables, io>>

InitIds ==
    /\ pc = "order_id"
    /\ args = NoArgs
    /\ now = FirstNow
    /\ win = [start_d |-> 0, end_d |-> 0]
    /\ dom = BaseDraws
    /\ tracing = FALSE
    /\ InitStreams
    /\ InitTables
    /\ \E seed_ \in IdSeeds : \E c \in IdCounters :
          loc = [NoLoc EXCEPT !.seed = seed_, !.order_counter = c]
    /\ prev = <<>>
    /\ InitIo

NextIds ==
    \/ NextId
    \/ OtherRun

SpecIds == InitIds /\ [][NextIds]_vars

\* main up to its call of apply_discounts_with_promotions, and then a
\* second call on the same orders, items, products and promotion index
ApplyAgain ==
    /\ pc = "apply_again"
    /\ prev' = <<[items |-> items]>>
    /\ items' = apply_discounts_with_promotions(
                    orders, items, ProductsById(products), promo_idx)
    /\ applied' = applied + 1
    /\ pc' = "applied_twice"
    /\ UNCHANGED <<setup, streams, stores, products, customers, promotions,
                   promo_idx, orders, inventory, loc, files, ret>>

InitApply ==
    /\ pc = "main"
    /\ args \in [seed : Seeds, scale : DOMAIN SCALES, days : 0..MaxDays,
                 has_start : BOOLEAN, start_date : StartDates, count : {0}, overwrite : {TRUE}, entry : {"main"}, no_overwrite : {FALSE}]
    /\ now = FirstNow
    /\ win = [start_d |-> 0, end_d |-> 0]
    /\ dom = PriceDraws
    /\ tracing = FALSE
    /\ InitStreams
    /\ InitTables
    /\ loc = NoLoc
    /\ prev = <<>>
    /\ InitIo

NextApply ==
    \/ MainStart
    \/ GenStores(SCALES[args.scale].stores, "gen_products")
    \/ GenProducts(SCALES[args.scale].products, "gen_customers")
    \/ GenCustomers(SCALES[args.scale].customers, "gen_promotions")
    \/ GenPromotions("promo_lookup")
    \/ PromoLookup("gen_orders")
    \/ OrdersEnter(args.seed, StartDt(win.start_d), EndDt(win.end_d),
                   "apply_discounts")
    \/ OrdersLoop
    \/ ApplyDiscounts("apply_again")
    \/ ApplyAgain

SpecApply == InitApply /\ [][NextApply]_vars

\* ------------------------------------------------------------------ claims

StoreIds == {stores[i].store_id : i \in DOMAIN stores}
ProductIds == {products[i].product_id : i \in DOMAIN products}
CustomerIds == {customers[i].customer_id : i \in DOMAIN customers}

\* ids are exactly 1..count, in order
Dense(rows, id(_), count) ==
    /\ Len(rows) = count
    /\ \A i \in DOMAIN rows : id(rows[i]) = i

AfterOrders == pc \in {"apply_discounts", "gen_inventory", "write_csv", "done"}
AfterDiscounts == pc \in {"gen_inventory", "write_csv", "done"}

\* the lines of order oid, in the order they were emitted
LinesOf(oid) == SelectSeq(items, LAMBDA it : it.order_id = oid)

\* the order, the product and the promotion discount of a line item, read
\* off the generated tables
OrderOf(it) == orders[CHOOSE i \in DOMAIN orders : orders[i].order_id = it.order_id]
ProductOf(it) ==
    products[CHOOSE i \in DOMAIN products : products[i].product_id = it.product_id]
PromoDiscOf(it) ==
    LET d == DateOf(OrderOf(it).order_ts)
        act == {k \in DOMAIN promotions :
                   /\ promotions[k].product_id = it.product_id
                   /\ promotions[k].start_date <= d
                   /\ d <= promotions[k].end_date}
    IN  IF act = {} THEN 0
        ELSE promotions[CHOOSE k \in act : \A j \in act : k <= j].discount_pct

\* C1: for every count >= 1 gen_products(count) returns exactly count
\* products with product_id 1..count, no gap and no duplicate, also when
\* count is below 6 or leaves a remainder; gen_stores and gen_customers
\* return the ids 1..count as well
C1_DenseIds ==
    args.count >= 1 =>
        /\ pc = "ret_products" =>
              Dense(products, LAMBDA p : p.product_id, args.count)
        /\ pc = "ret_stores" =>
              Dense(stores, LAMBDA st : st.store_id, args.count)
        /\ pc = "ret_customers" =>
              Dense(customers, LAMBDA c : c.customer_id, args.count)

\* gen_products(7) has returned: six products of the category loop and a filler
C1_Witness ==
    /\ pc = "ret_products"
    /\ args.count = NumCategories + 1
    /\ Len(products) = NumCategories + 1

\* C2: each dimension generator called with count 0 returns no rows
C2_ZeroCountEmpty ==
    args.count = 0 =>
        /\ pc = "ret_stores" => stores = <<>>
        /\ pc = "ret_products" => products = <<>>
        /\ pc = "ret_customers" => customers = <<>>

\* C3: two runs with the same seed, scale and window write the same rows
\* to all seven tables
C3_RunsIdentical ==
    (pc = "done" /\ Len(prev) = 1 /\ prev[1].win = win) => prev[1].out = Output

\* C4: for a fixed seed and fixed arguments gen_orders_and_items returns
\* the same orders and the same line items on every call
C4_CallsIdentical ==
    (pc = "returned" /\ Len(prev) = 1) =>
        /\ prev[1].orders = orders
        /\ prev[1].items = items

\* C5: every foreign key resolves: an order's store_id and customer_id, an
\* item's product_id, a promotion's product_id and a snapshot's store_id
\* and product_id are ids of rows of the dimension tables of the run
C5_ForeignKeys ==
    /\ \A i \in DOMAIN orders :
          /\ orders[i].store_id \in StoreIds
          /\ orders[i].customer_id \in CustomerIds
    /\ \A i \in DOMAIN items : items[i].product_id \in ProductIds
    /\ \A i \in DOMAIN promotions : promotions[i].product_id \in ProductIds
    /\ \A i \in DOMAIN inventory :
          /\ inventory[i].store_id \in StoreIds
          /\ inventory[i].product_id \in ProductIds

\* a finished run with rows in all four referencing tables, one of them
\* naming the second product
C5_Witness ==
    /\ pc = "done"
    /\ orders # <<>> /\ promotions # <<>> /\ inventory # <<>>
    /\ \E i \in DOMAIN items : items[i].product_id = 2

\* C6: after gen_orders_and_items the order_ids of the items are exactly
\* the order_ids of the orders: every order has a line, and a sampled
\* order the store-bias draw rejected has left no order and no item
C6_ItemsMatchOrders ==
    AfterOrders =>
        /\ {items[i].order_id : i \in DOMAIN items}
              = {orders[i].order_id : i \in DOMAIN orders}
        /\ \A i \in DOMAIN orders :
              \E c \in 1..loc.order_counter :
                  orders[i].order_id = OrderId(loc.seed, c)
        /\ Len(orders) <= loc.order_counter

\* two orders were sampled, one was rejected and one was kept
C6_Witness ==
    /\ AfterOrders
    /\ loc.order_counter = 2
    /\ Len(orders) = 1
    /\ items # <<>>

\* C7: every emitted order has 1 <= k <= 8 lines, numbered 1, 2, ..., k in
\* the order they were emitted, so (order_id, line_number) is a key
C7_BasketLines ==
    AfterOrders =>
        /\ \A i \in DOMAIN orders :
              LET lines == LinesOf(orders[i].order_id)
              IN  /\ 1 <= Len(lines) /\ Len(lines) <= 8
                  /\ \A j \in DOMAIN lines : lines[j].line_number = j
        /\ \A i, j \in DOMAIN items :
              (/\ items[i].order_id = items[j].order_id
               /\ items[i].line_number = items[j].line_number) => i = j

\* an order of eight lines, its basket clamped, beside an order of three
C7_Witness ==
    /\ AfterOrders
    /\ \E i, j \in DOMAIN orders :
          /\ Len(LinesOf(orders[i].order_id)) = 8
          /\ Len(LinesOf(orders[j].order_id)) = 3

\* C8: in every state of the run every item has extended_price ==
\* round(unit_price * qty, 2): with the provisional price and with the
\* final one
C8_ExtendedPrice ==
    \A i \in DOMAIN items :
        items[i].extended_price
            = RoundHalfEven(items[i].unit_price * items[i].qty, 1)

\* a discounted line of more than one unit
C8_Witness ==
    /\ AfterDiscounts
    /\ \E i \in DOMAIN items :
          /\ items[i].qty > 1
          /\ items[i].unit_price < ProductOf(items[i]).base_price

\* C9: after apply_discounts_with_promotions every unit_price equals
\* round(base_price * (1 - order_discount) * (1 - promo_discount), 2), with
\* the base_price of the item's product, the discount_pct of its order and
\* the discount of the promotion active for the product on the order's
\* date (0 if none)
C9_FinalPrice ==
    AfterDiscounts =>
        \A i \in DOMAIN items :
            items[i].unit_price
                = RoundHalfEven(ProductOf(items[i]).base_price
                                    * (100 - OrderOf(items[i]).discount_pct)
                                    * (100 - PromoDiscOf(items[i])),
                                10000)

\* a line that carries an order discount and a promotion discount
C9_Witness ==
    /\ AfterDiscounts
    /\ \E i \in DOMAIN items :
          /\ OrderOf(items[i]).discount_pct > 0
          /\ PromoDiscOf(items[i]) > 0

\* C10: after apply_discounts_with_promotions unit_price <= base_price of
\* the product, with equality when both discounts are 0
C10_NeverAboveBase ==
    AfterDiscounts =>
        \A i \in DOMAIN items :
            /\ items[i].unit_price <= ProductOf(items[i]).base_price
            /\ (/\ OrderOf(items[i]).discount_pct = 0
                /\ PromoDiscOf(items[i]) = 0) =>
                  items[i].unit_price = ProductOf(items[i]).base_price

\* one line at its base price, no discount on it, and one below it
C10_Witness ==
    /\ AfterDiscounts
    /\ \E i, j \in DOMAIN items :
          /\ OrderOf(items[i]).discount_pct = 0
          /\ PromoDiscOf(items[i]) = 0
          /\ items[i].unit_price = ProductOf(items[i]).base_price
          /\ items[j].unit_price < ProductOf(items[j]).base_price

\* C11: apply_discounts_with_promotions prices a line from the product's
\* base_price, never from the line's current unit_price: a second
\* application to the same orders, items, products and promotion index
\* leaves every line item as the first application left it
C11_SecondPassSame ==
    pc = "applied_twice" => items = prev[1].items

\* the second application has run over a line the first one discounted
C11_Witness ==
    /\ pc = "applied_twice"
    /\ \E i \in DOMAIN items :
          items[i].unit_price < ProductOf(items[i]).base_price

\* the steps of a run that follow its call of the discount post-processor
PostApply == {"gen_inventory", "write_csv", "done",
              "w_orders", "w_order_items", "w_inventory"}

\* the final unit price of a line, from the tables of the run
FinalUnit(it) ==
    RoundHalfEven(ProductOf(it).base_price
                      * (100 - OrderOf(it).discount_pct)
                      * (100 - PromoDiscOf(it)),
                  10000)

\* C12: in a run of seed_data main or of the pipeline job the discount
\* post-processor is called once and never twice, after the promotions
\* and the orders and items were generated and before order_items is
\* written: every price written out is a final one
C12_AppliedOnce ==
    /\ applied <= 1
    /\ pc \in PostApply => applied = 1
    /\ applied = 1 =>
          /\ pc \in PostApply \cup {"failed"}
          /\ loc.current > loc.end_dt
          /\ promo_idx = promo_lookup(promotions)
    /\ "order_items" \in DOMAIN files =>
          /\ applied = 1
          /\ \A i \in DOMAIN files["order_items"] :
                files["order_items"][i].unit_price
                    = FinalUnit(files["order_items"][i])

\* the pipeline job has finished and has written a discounted line
C12_Witness ==
    /\ pc = "done"
    /\ args.entry = "job"
    /\ "order_items" \in DOMAIN files
    /\ \E i \in DOMAIN files["order_items"] :
          files["order_items"][i].unit_price
              < ProductOf(files["order_items"][i]).base_price

\* the orders emitted so far carry the counters c[1] < c[2] < ...
CountersRise ==
    \E c \in [DOMAIN orders -> 1..loc.order_counter] :
        /\ \A i \in DOMAIN orders : orders[i].order_id = OrderId(loc.seed, c[i])
        /\ \A i, j \in DOMAIN orders : i < j => c[i] < c[j]

\* a step that samples an order: it is rejected or it is appended
Sampled == pc = "order" /\ pc' \in {"order", "line"}

\* C13: within one call of gen_orders_and_items the emitted order_ids are
\* pairwise distinct and their counters rise in emission order; every
\* sampled order advances the counter by one, a rejected one as well
C13_OrderIds ==
    /\ [](/\ \A i, j \in DOMAIN orders :
                i # j => orders[i].order_id # orders[j].order_id
          /\ CountersRise)
    /\ [][/\ Sampled => loc'.order_counter = loc.order_counter + 1
          /\ (Sampled /\ pc' = "order") => orders' = orders
          /\ (Sampled /\ pc' = "line") =>
                /\ Len(orders') = Len(orders) + 1
                /\ orders'[Len(orders')].order_id
                       = OrderId(loc.seed, loc.order_counter + 1)]_vars

\* the first sampled order was rejected, the second one kept: the only
\* order carries the counter 2
C13_Witness ==
    /\ Len(orders) = 1
    /\ orders[1].order_id = OrderId(loc.seed, 2)
    /\ pc = "done"

\* C14: the ids of runs with different seeds differ: for seeds s1 # s2 and
\* counters c1, c2 >= 1 the id of (s1, c1) is not the id of (s2, c2)
C14_SeedsApart ==
    (pc = "id_made" /\ Len(prev) = 1 /\ prev[1].seed # loc.seed) =>
        prev[1].order_id # loc.order_id

\* the days from the first to the last of the requested window
WindowDays == win.end_d - win.start_d

\* C15: every promotion of gen_promotions has start_date <= end_date and
\* lasts 5 to 14 days; a window edge never cuts it below that
C15_PromoLength ==
    pc = "ret_promotions" =>
        \A i \in DOMAIN promotions :
            /\ promotions[i].start_date <= promotions[i].end_date
            /\ promotions[i].end_date - promotions[i].start_date >= MinDuration
            /\ promotions[i].end_date - promotions[i].start_date <= MaxDuration

\* a promotion of 14 days and one of 5 days, in a window of fewer days
C15_Witness ==
    /\ pc = "ret_promotions"
    /\ WindowDays < MinDuration
    /\ \E i, j \in DOMAIN promotions :
          /\ promotions[i].end_date - promotions[i].start_date = MaxDuration
          /\ promotions[j].end_date - promotions[j].start_date = MinDuration

\* C16: every promotion of gen_promotions(products, window_start,
\* window_end) lies within the window: window_start <= start_date and
\* end_date <= window_end
C16_InsideWindow ==
    pc = "ret_promotions" =>
        \A i \in DOMAIN promotions :
            /\ win.start_d <= promotions[i].start_date
            /\ promotions[i].end_date <= win.end_d

\* C17: over a window that ends before it starts, or is too short for a
\* promotion of 5 days, gen_promotions returns and emits no promotion
C17_UnfitSkipped ==
    (pc = "ret_promotions" /\ WindowDays < MinDuration) => promotions = <<>>

\* the product and the date the lookup is asked about, and whether the
\* k-th promotion is a window of that product holding that date
AskedPid == items[1].product_id
AskedDate == DateOf(orders[1].order_ts)
Holds(k) ==
    /\ promotions[k].product_id = AskedPid
    /\ promotions[k].start_date <= AskedDate
    /\ AskedDate <= promotions[k].end_date

\* the index lists the windows of product pid in the order of promos,
\* each as often as promos has it
KeepsOrder(pid) ==
    LET mine == {k \in DOMAIN promotions : promotions[k].product_id = pid}
    IN  IF mine = {}
        THEN pid \notin DOMAIN promo_idx
        ELSE /\ pid \in DOMAIN promo_idx
             /\ Len(promo_idx[pid]) = Cardinality(mine)
             /\ \E f \in [DOMAIN promo_idx[pid] -> mine] :
                   /\ \A i, j \in DOMAIN f : i < j => f[i] < f[j]
                   /\ \A i \in DOMAIN f :
                         promo_idx[pid][i] = <<promotions[f[i]].start_date,
                                               promotions[f[i]].end_date,
                                               promotions[f[i]].discount_pct>>

\* C18: is_promo_active returns the discount of the first window, in the
\* order the promotions were generated, that holds the date of the
\* timestamp, and 0 when the product has no entry or no window holds it;
\* _promo_lookup keeps each product's windows in that order, duplicates
\* included
C18_FirstWindow ==
    /\ pc \in {"is_promo_active", "apply_discounts", "looked_up"} =>
          \A pid \in 1..2 : KeepsOrder(pid)
    /\ pc \in {"apply_discounts", "looked_up"} =>
          \/ \E k \in DOMAIN promotions :
                /\ Holds(k)
                /\ \A j \in 1..(k - 1) : ~Holds(j)
                /\ ret = promotions[k].discount_pct
          \/ /\ \A k \in DOMAIN promotions : ~Holds(k)
             /\ ret = 0

\* two windows of the product hold the date, with different discounts
C18_Witness ==
    /\ pc = "looked_up"
    /\ Len(promotions) = 2
    /\ Holds(1) /\ Holds(2)
    /\ promotions[1].discount_pct # promotions[2].discount_pct
    /\ ret = promotions[1].discount_pct

\* C19: a window holds both its ends and is matched by the calendar date:
\* an order at any minute of a day from start_date to end_date gets the
\* promotion discount, an order on a day outside every window gets none
C19_InclusiveDates ==
    pc = "looked_up" =>
        IF \E k \in DOMAIN promotions : Holds(k)
        THEN /\ ret > 0
             /\ items[1].unit_price
                   = RoundHalfEven(ProductOf(items[1]).base_price * (100 - ret), 100)
        ELSE /\ ret = 0
             /\ items[1].unit_price = ProductOf(items[1]).base_price

\* an order in the last minute of the end_date of the only window of its
\* product: the line is discounted
C19_Witness ==
    /\ pc = "looked_up"
    /\ Len(promotions) = 1
    /\ promotions[1].product_id = AskedPid
    /\ orders[1].order_ts = promotions[1].end_date * DayMinutes + (DayMinutes - 1)
    /\ items[1].unit_price < ProductOf(items[1]).base_price

\* C20: in every inventory snapshot on_order > 0 implies on_hand <
\* safety_stock, and on_hand >= safety_stock implies on_order = 0 and
\* reorder_qty = 0
C20_ReorderOnlyWhenLow ==
    \A i \in DOMAIN inventory :
        /\ inventory[i].on_order > 0 =>
              inventory[i].on_hand < inventory[i].safety_stock
        /\ inventory[i].on_hand >= inventory[i].safety_stock =>
              /\ inventory[i].on_order = 0
              /\ inventory[i].reorder_qty = 0

\* a snapshot with stock on order beside one whose stock is exactly the
\* safety stock
C20_Witness ==
    /\ pc = "done"
    /\ \E i, j \in DOMAIN inventory :
          /\ inventory[i].on_order > 0
          /\ inventory[i].on_hand < inventory[i].safety_stock
          /\ inventory[j].on_hand = inventory[j].safety_stock
          /\ inventory[j].on_order = 0

\* the snapshots of store s and product p stamped 06:00 on day d
SnapsAt(d, st, p) ==
    {k \in DOMAIN inventory :
        /\ inventory[k].snapshot_ts = d * DayMinutes + SnapMinute
        /\ inventory[k].store_id = st.store_id
        /\ inventory[k].product_id = p.product_id}

NothingGenerated ==
    /\ stores = <<>> /\ products = <<>> /\ customers = <<>>
    /\ promotions = <<>> /\ orders = <<>> /\ items = <<>>
    /\ inventory = <<>>
    /\ applied = 0
    /\ gseed = -1 /\ rseed = -1

\* C22: a run with a scale that SCALES does not have fails before a
\* generator runs and before a table or a file is written: it leaves no
\* partial output
C22_UnknownScaleRejected ==
    /\ [](args.scale \notin DOMAIN SCALES =>
             /\ pc \in {"main", "job", "usage_error", "failed"}
             /\ NothingGenerated)
    /\ [][args.scale \notin DOMAIN SCALES => files' = files]_vars

\* the job was given the scale "huge" and has failed beside the table an
\* earlier run wrote
C22_Witness ==
    /\ pc = "failed"
    /\ args.entry = "job"
    /\ args.scale \notin DOMAIN SCALES
    /\ DOMAIN files = {"orders"}

\* how many of the evenly spread draws zipf_like_index(n) sends to idx
DrawsTo(n, idx) == Cardinality({r \in ZipfGrid : zipf_like_index(n, r) = idx})

\* C23: zipf_like_index(n) returns an index of 0..n-1 and favours the low
\* ones: of evenly spread draws more go to index 0 than to index n - 1
C23_FavoursLowIndex ==
    pc = "zipf_ret" =>
        /\ ret \in 0..(args.count - 1)
        /\ args.count >= 2 =>
              DrawsTo(args.count, 0) > DrawsTo(args.count, args.count - 1)

\* the credential modes of the configuration held in args
HasPrincipal ==
    Truthy(args.databricks_client_id) /\ Truthy(args.databricks_client_secret)
HasToken == Truthy(args.databricks_host) /\ Truthy(args.databricks_token)
HasHost == Truthy(args.databricks_host)

\* C24: get_databricks_config picks one credential mode, in a fixed order,
\* and returns only that mode's fields: client_id and client_secret give
\* host, client_id and client_secret and no token; else host and token
\* give host and token; else host gives host alone; with none of the four
\* configured it raises RuntimeError
C24_OneCredentialMode ==
    pc \in {"auth_returned", "auth_raised"} =>
        /\ HasPrincipal =>
              /\ pc = "auth_returned"
              /\ DOMAIN ret = {"host", "client_id", "client_secret"}
              /\ ret["host"] = args.databricks_host
              /\ ret["client_id"] = args.databricks_client_id
              /\ ret["client_secret"] = args.databricks_client_secret
        /\ (~HasPrincipal /\ HasToken) =>
              /\ pc = "auth_returned"
              /\ DOMAIN ret = {"host", "token"}
              /\ ret["host"] = args.databricks_host
              /\ ret["token"] = args.databricks_token
        /\ (~HasPrincipal /\ ~HasToken /\ HasHost) =>
              /\ pc = "auth_returned"
              /\ DOMAIN ret = {"host"}
              /\ ret["host"] = args.databricks_host
        /\ (/\ ~Truthy(args.databricks_host)
            /\ ~Truthy(args.databricks_token)
            /\ ~Truthy(args.databricks_client_id)
            /\ ~Truthy(args.databricks_client_secret)) => pc = "auth_raised"

\* all four fields are configured: the service principal wins and the
\* token is left out
C24_Witness ==
    /\ pc = "auth_returned"
    /\ HasPrincipal /\ HasToken
    /\ "token" \notin DOMAIN ret

\* C25: apply_discounts_with_promotions changes the unit_price and the
\* extended_price of line items and nothing else: the orders, the
\* products, the promotions and their index, the number and the order of
\* the items and each item's order_id, line_number, product_id and qty
\* stay as they were
C25_OnlyPricesChange ==
    [][pc = "apply_discounts" =>
          /\ orders' = orders
          /\ products' = products
          /\ promotions' = promotions
          /\ promo_idx' = promo_idx
          /\ Len(items') = Len(items)
          /\ \A i \in DOMAIN items :
                /\ items'[i].order_id = items[i].order_id
                /\ items'[i].line_number = items[i].line_number
                /\ items'[i].product_id = items[i].product_id
                /\ items'[i].qty = items[i].qty]_vars

\* the step has just repriced the lines of a run, one of them a line of
\* several units
C25_Witness ==
    /\ pc = "gen_inventory"
    /\ applied = 1
    /\ Len(items) >= 2
    /\ \E i \in DOMAIN items :
          /\ items[i].qty > 1
          /\ items[i].extended_price
                < ProductOf(items[i]).base_price * items[i].qty

\* gen_orders_and_items is running, or has returned and its prices are
\* still the provisional ones
Provisional == pc \in {"minute", "coin", "order", "line", "apply_discounts"}

\* C26: over a catalog of gen_products every line picks its product
\* through a permutation of the whole catalog drawn from the stream of the
\* run's seed, so that every product can be picked, and the provisional
\* unit_price of the line is the base_price of the product it names
C26_ProvisionalPrice ==
    Provisional =>
        /\ rseed = args.seed + RndOffset
        /\ DOMAIN loc.product_order = 1..Len(products)
        /\ {loc.product_order[i] : i \in DOMAIN loc.product_order}
              = 0..(Len(products) - 1)
        /\ \A j \in DOMAIN products :
              \E r \in ZipfGrid :
                  loc.product_order[zipf_like_index(Len(products), r) + 1] + 1 = j
        /\ \A i \in DOMAIN items :
              items[i].unit_price = ProductOf(items[i]).base_price

\* a line names the second product of a catalog of two prices
C26_Witness ==
    /\ pc = "apply_discounts"
    /\ Len(products) = 2
    /\ products[1].base_price # products[2].base_price
    /\ \E i \in DOMAIN items :
          /\ items[i].product_id = 2
          /\ items[i].unit_price = products[2].base_price

\* C27: the discount_pct of every emitted order lies in [0, 0.25]: the
\* gauss is floored at 0 and the value is capped at 0.25 or forced to 0
C27_DiscountRange ==
    \A i \in DOMAIN orders :
        /\ orders[i].discount_pct >= 0
        /\ orders[i].discount_pct <= MaxOrderDisc

\* an order whose discount was capped beside one whose discount was forced
\* to 0
C27_Witness ==
    /\ pc = "done"
    /\ \E i, j \in DOMAIN orders :
          /\ orders[i].discount_pct = MaxOrderDisc
          /\ orders[j].discount_pct = 0

\* the steps of the minute loop: a minute is entered, the cursor is moved,
\* the loop is left
Visits == pc = "minute" /\ pc' = "coin"
Leaves == pc = "minute" /\ pc' \notin {"minute", "coin"}

\* C28: every order_ts is a minute of [start_dt, end_dt], both ends
\* included; orders are emitted in non-decreasing order_ts; the loop visits
\* each minute of the window once, in ascending order; and when end_dt is
\* before start_dt no order and no item is emitted
C28_MinuteByMinute ==
    /\ [](/\ \A i \in DOMAIN orders :
                /\ StartDt(win.start_d) <= orders[i].order_ts
                /\ orders[i].order_ts <= EndDt(win.end_d)
          /\ \A i, j \in DOMAIN orders :
                i < j => orders[i].order_ts <= orders[j].order_ts
          /\ EndDt(win.end_d) < StartDt(win.start_d) =>
                orders = <<>> /\ items = <<>>)
    /\ [][/\ pc = "gen_orders" =>
                /\ loc'.current = StartDt(win.start_d)
                /\ loc'.end_dt = EndDt(win.end_d)
          /\ Visits => loc.current <= loc.end_dt /\ loc'.current = loc.current
          /\ (pc # "gen_orders" /\ loc'.current # loc.current) =>
                /\ pc = "order" /\ pc' = "minute"
                /\ loc'.current = loc.current + 1
          /\ (pc = "order" /\ pc' = "minute") =>
                loc'.current = loc.current + 1
          /\ Leaves =>
                loc.current = Max(StartDt(win.start_d), EndDt(win.end_d) + 1)
          /\ Len(orders') > Len(orders) =>
                orders'[Len(orders')].order_ts = loc.current]_vars

\* a finished run with an order in the first and an order in the last
\* minute of its window
C28_Witness ==
    /\ pc = "done"
    /\ \E i, j \in DOMAIN orders :
          /\ orders[i].order_ts = StartDt(win.start_d)
          /\ orders[j].order_ts = EndDt(win.end_d)
          /\ orders[i].order_ts < orders[j].order_ts

\* C29: gen_orders_and_items returns for every finite window and
\* non-empty dimension lists: the cursor moves on by a minute in every
\* outer iteration until it has passed end_dt, and the coin of a minute,
\* whose probability of success lies strictly between 0 and 1, fails
\* after finitely many successes when the draws are fair
C29_Terminates == <>(pc = "returned" /\ loc.current > loc.end_dt)

\* the call has returned two orders after a coin that went on succeeding
C29_Witness ==
    /\ pc = "returned"
    /\ Len(orders) = 2
    /\ loc.surplus = 1

\* every generator of main and the post-processor have run to their end
AllGenerated ==
    /\ Len(stores) = SCALES[args.scale].stores
    /\ Len(products) = SCALES[args.scale].products
    /\ Len(customers) = SCALES[args.scale].customers
    /\ DOMAIN promo_idx = {promotions[k].product_id : k \in DOMAIN promotions}
    /\ rseed = args.seed + RndOffset
    /\ loc.current > loc.end_dt
    /\ applied = 1
    /\ Len(inventory) = Max(0, WindowDays + 1) * Len(stores) * Len(products)

\* C30: seed_data main with --no-overwrite, finding one of its CSV files,
\* returns 2 before a generator has run and leaves every file as it was;
\* when it finds none, and without the flag, the seven files are written
\* in the one place that follows every generator and the post-processor
C30_NoOverwriteFrame ==
    /\ [](args.entry = "main" /\ pc = "exit_2" =>
             /\ args.no_overwrite
             /\ files = OldFiles
             /\ stores = <<>> /\ products = <<>> /\ customers = <<>>
             /\ promotions = <<>> /\ orders = <<>> /\ items = <<>>
             /\ inventory = <<>>
             /\ applied = 0 /\ rseed = -1)
    /\ [][args.entry = "main" =>
             /\ (/\ pc = "main"
                 /\ args.scale \in DOMAIN SCALES
                 /\ args.no_overwrite
                 /\ DOMAIN files # {}) =>
                    pc' = "exit_2" /\ tables' = tables /\ files' = files
             /\ pc' = "exit_2" => pc = "main"
             /\ pc # "exit_2"
             /\ DOMAIN files' # DOMAIN files =>
                    /\ pc = "write_csv" /\ pc' = "done"
                    /\ args.no_overwrite => DOMAIN files = {}
                    /\ AllGenerated
                    /\ files' = Output
                    /\ DOMAIN files' = {"stores", "products", "customers",
                                        "promotions", "orders", "order_items",
                                        "inventory_snapshots"}
             /\ DOMAIN files' = DOMAIN files => files' = files]_vars

\* main was run with --no-overwrite beside an orders file and has returned 2
C30_Witness ==
    /\ pc = "exit_2"
    /\ args.entry = "main"
    /\ args.no_overwrite
    /\ files = OldFiles

====
